---------------------------- MODULE Spec2Model ----------------------------
(***************************************************************************)
(* A model of pyfitsexplorer: the grayscale normalizer (View._loadPixmap   *)
(* and utils.fits_to_qpixmap), the HDU classifier (View.currentHDUType),   *)
(* the text export (MainWindow._exportTable, MainWindow._escape_latex) and *)
(* the tab / view state machine of MainWindow and View.                    *)
(***************************************************************************)
EXTENDS Integers, Sequences, FiniteSets, TLC

VARIABLES
    \* ---- grayscale normalizer ----
    data,        \* the 2D sample array handed to the normalizer (rows of samples)
    cast,        \* what the build's float -> uint8 cast yields for Inf and for NaN
    norm_data,   \* the uint8 buffer produced (<<>> before the call)
    divided,     \* TRUE when the scaling branch (the division) was executed
    npc,         \* "input", then the name of the routine that ran
    \* ---- LaTeX escaping ----
    text,        \* the string handed to MainWindow._escape_latex (a sequence of characters)
    escaped,     \* the string it returned
    lpc,         \* "input", then "_escape_latex"
    \* ---- table export ----
    table,       \* the table of the current view: [names, rows]
    xres,        \* the outcome of MainWindow._exportTable
    \* ---- HDU classifier ----
    cview,       \* the view (its HDU list and current index) that is classified
    cls,         \* what View.currentHDUType returned ("" before the call)
    \* ---- main window and its views ----
    tabs,        \* the views held by MainWindow._tabWidget, in tab order
    tabCur,      \* the tab widget's current index (-1 with no tab)
    currentView, \* MainWindow._currentView as a tab index (-1 for None)
    current_hdu_type,  \* MainWindow._current_hdu_type
    zoomVisible, \* whether the Zoom In / Zoom Out menu actions are visible
    exc,         \* the unhandled exception that ended the program, if any
    last         \* the handler that just ran: its name, arguments and outcome
                 \* (NoLast once control is back in the event loop)

normVars == <<data, cast, norm_data, divided, npc>>
escVars  == <<text, escaped, lpc>>
expVars  == <<table, xres>>
clsVars  == <<cview, cls>>
guiVars  == <<tabs, tabCur, currentView, current_hdu_type, zoomVisible, exc, last>>

vars == <<normVars, escVars, expVars, clsVars, guiVars>>

(***************************************************************************)
(* Bounds of the model.                                                    *)
(***************************************************************************)
MaxPixels == 4      \* arrays have height * width <= MaxPixels
MaxSample == 1      \* finite samples are the integers -1 .. MaxSample
MaxTextLen == 2     \* strings handed to _escape_latex have at most MaxTextLen characters
MaxCells == 3       \* exported tables have columns * rows <= MaxCells
MaxNdim == 3        \* payloads have 1 .. MaxNdim dimensions
MaxHdus == 2        \* classified HDU lists have at most MaxHdus units
MaxTabs == 2        \* at most MaxTabs tabs are opened
MaxZoom == 1        \* the wheel zooms in up to level MaxZoom
MaxZoomOut == 1     \* the wheel zooms out down to level - MaxZoomOut

(***************************************************************************)
(* Floating point samples.  A finite sample is an exact small integer; the *)
(* other kinds are IEEE NaN, +Inf, -Inf, and the largest / most negative   *)
(* finite float (what numpy.nan_to_num substitutes for the infinities).    *)
(* A quotient is kept exact as num / den until it is cast.                 *)
(***************************************************************************)
Fin(n)   == [k |-> "fin", num |-> n, den |-> 1]
Rat(n,d) == [k |-> "fin", num |-> n, den |-> d]
Tiny     == [k |-> "tiny", num |-> 0, den |-> 1]   \* 0 < x < 1, from x / HUGE
NaN      == [k |-> "nan", num |-> 0, den |-> 1]
PosInf   == [k |-> "pinf", num |-> 0, den |-> 1]
NegInf   == [k |-> "ninf", num |-> 0, den |-> 1]
FltMax   == [k |-> "max", num |-> 0, den |-> 1]
FltMin   == [k |-> "nmax", num |-> 0, den |-> 1]

Specials == {NaN, PosInf, NegInf}
Samples  == {Fin(n) : n \in -1 .. MaxSample} \cup Specials

\* the shapes (height, width) of the arrays of the model
Shapes == {s \in (1 .. MaxPixels) \X (1 .. MaxPixels) : s[1] * s[2] <= MaxPixels}
Arrays(S) == UNION {[1 .. s[1] -> [1 .. s[2] -> S]] : s \in Shapes}

ExampleArray == <<<<Fin(0), Fin(10)>>, <<Fin(20), Fin(30)>>>>

Height(a) == Len(a)
Width(a)  == Len(a[1])
Pixels(a) == {<<r, c>> : r \in 1 .. Height(a), c \in 1 .. Width(a)}

\* numpy.nan_to_num with its default arguments: NaN -> 0.0, +Inf -> the largest
\* finite float, -Inf -> the most negative finite float
nan_to_num_scalar(x) ==
    CASE x.k = "nan"  -> Fin(0)
      [] x.k = "pinf" -> FltMax
      [] x.k = "ninf" -> FltMin
      [] OTHER        -> x
nan_to_num(a) == [r \in 1 .. Height(a) |-> [c \in 1 .. Width(a) |-> nan_to_num_scalar(a[r][c])]]

\* the order of finite floats: FltMin < every small integer < FltMax
FLess(x, y) ==
    \/ x.k = "nmax" /\ y.k # "nmax"
    \/ x.k # "max"  /\ y.k = "max"
    \/ x.k = "fin"  /\ y.k = "fin" /\ x.num < y.num
np_min(a) == CHOOSE m \in {a[p[1]][p[2]] : p \in Pixels(a)} :
                 \A p \in Pixels(a) : ~ FLess(a[p[1]][p[2]], m)
np_max(a) == CHOOSE m \in {a[p[1]][p[2]] : p \in Pixels(a)} :
                 \A p \in Pixels(a) : ~ FLess(m, a[p[1]][p[2]])

\* x - m in IEEE arithmetic, for m <= x both finite floats
FSub(x, m) ==
    CASE x.k = "fin" /\ m.k = "fin"  -> Fin(x.num - m.num)
      [] x.k = m.k                   -> Fin(0)       \* HUGE - HUGE
      [] x.k = "max" /\ m.k = "fin"  -> FltMax       \* the small term is absorbed
      [] x.k = "fin" /\ m.k = "nmax" -> FltMax
      [] x.k = "max" /\ m.k = "nmax" -> PosInf       \* overflow
      [] OTHER                       -> NaN

\* 255 * x
FMul255(x) ==
    CASE x.k = "fin"  -> Fin(255 * x.num)
      [] x.k = "max"  -> PosInf                      \* overflow
      [] OTHER        -> x

\* x / d, for x >= 0 and d >= 0
FDiv(x, d) ==
    CASE d.k = "fin" /\ d.num = 0    -> IF x.k = "fin" /\ x.num = 0 THEN NaN ELSE PosInf
      [] x.k = "fin" /\ d.k = "fin"  -> Rat(x.num, d.num)
      [] x.k = "fin" /\ x.num = 0    -> Fin(0)
      [] x.k = "fin" /\ d.k = "pinf" -> Fin(0)        \* finite / Inf is exactly 0.0
      [] x.k = "fin"                 -> Tiny          \* small / HUGE
      [] x.k = "pinf" /\ d.k = "pinf" -> NaN
      [] x.k = "pinf"                -> PosInf
      [] OTHER                       -> NaN

\* ndarray.astype(np.uint8) of one float: the fraction is cut off; the cast of
\* Inf and of NaN is undefined in C and yields whatever the build yields (c)
astype_uint8_round(x, c) ==
    CASE x.k = "fin"  -> ((2 * x.num + x.den) \div (2 * x.den)) % 256
      [] x.k = "tiny" -> 0
      [] x.k = "pinf" -> c.inf
      [] OTHER        -> c.nan
astype_uint8(x, c) ==
    CASE x.k = "fin"  -> (x.num \div x.den) % 256
      [] x.k = "tiny" -> 0
      [] x.k = "pinf" -> c.inf
      [] OTHER        -> c.nan

Casts == [inf : {0, 255}, nan : {0, 255}]

\* np.zeros_like(data, dtype=np.uint8)
zeros_like(a) == [r \in 1 .. Height(a) |-> [c \in 1 .. Width(a) |-> 0]]

\* the scaling branch: 255 * (data - data_min) / (data_max - data_min), then the cast
Scale(d, lo, hi, c) ==
    [r \in 1 .. Height(d) |-> [col \in 1 .. Width(d) |->
        astype_uint8(FDiv(FMul255(FSub(d[r][col], lo)), FSub(hi, lo)), c)]]

\* "Step 2: Normalize to 0-255" of View._loadPixmap; the result is the buffer
\* and whether the division was executed
LoadPixmapNorm_unguarded(a, c) ==
    LET d  == nan_to_num(a)
    IN  [buf |-> Scale(d, np_min(d), np_max(d), c), div |-> TRUE]
LoadPixmapNorm(a, c) ==
    LET d  == nan_to_num(a)
        lo == np_min(d)
        hi == np_max(d)
    IN  IF hi = lo
        THEN [buf |-> zeros_like(d), div |-> FALSE]
        ELSE [buf |-> Scale(d, lo, hi, c), div |-> TRUE]

\* "Step 2: Normalize to 0-255" of utils.fits_to_qpixmap
FitsToQPixmapNorm(a, c) ==
    LET d  == nan_to_num(a)
        lo == np_min(d)
        hi == np_max(d)
    IN  IF hi = lo
        THEN [buf |-> zeros_like(d), div |-> FALSE]
        ELSE [buf |-> Scale(d, lo, hi, c), div |-> TRUE]

(***************************************************************************)
(* Strings are sequences of one-character strings.                         *)
(***************************************************************************)
RECURSIVE Concat(_)
Concat(ss) == IF ss = <<>> THEN <<>> ELSE Head(ss) \o Concat(Tail(ss))

\* str.join: sep.join(ss)
RECURSIVE Join(_, _)
Join(sep, ss) ==
    IF ss = <<>> THEN <<>>
    ELSE IF Len(ss) = 1 THEN Head(ss)
    ELSE Head(ss) \o sep \o Join(sep, Tail(ss))

\* str.replace(char, escape) for a one-character char
RECURSIVE Replace(_, _, _)
Replace(t, ch, esc) ==
    IF t = <<>> THEN <<>>
    ELSE (IF Head(t) = ch THEN esc ELSE <<Head(t)>>) \o Replace(Tail(t), ch, esc)

\* the replacements dictionary of _escape_latex, in its insertion order
replacements == <<
    [char |-> "&",  escape |-> <<"\\", "&">>],
    [char |-> "%",  escape |-> <<"\\", "%">>],
    [char |-> "$",  escape |-> <<"\\", "$">>],
    [char |-> "#",  escape |-> <<"\\", "#">>],
    [char |-> "_",  escape |-> <<"\\", "_">>],
    [char |-> "{",  escape |-> <<"\\", "{">>],
    [char |-> "}",  escape |-> <<"\\", "}">>],
    [char |-> "~",  escape |-> <<"\\", "t", "e", "x", "t", "a", "s", "c", "i", "i", "t", "i", "l", "d", "e", "{", "}">>],
    [char |-> "^",  escape |-> <<"\\", "t", "e", "x", "t", "a", "s", "c", "i", "i", "c", "i", "r", "c", "u", "m", "{", "}">>],
    [char |-> "\\", escape |-> <<"\\", "t", "e", "x", "t", "b", "a", "c", "k", "s", "l", "a", "s", "h", "{", "}">>] >>

\* for char, escape in replacements.items(): text = text.replace(char, escape)
RECURSIVE ReplaceAll(_, _)
ReplaceAll(t, reps) ==
    IF reps = <<>> THEN t
    ELSE ReplaceAll(Replace(t, Head(reps).char, Head(reps).escape), Tail(reps))

\* MainWindow._escape_latex
escape_latex(t) == ReplaceAll(t, replacements)

(***************************************************************************)
(* Header-data units and views.  A unit is its astropy class, whether it   *)
(* has a payload (hdu.data is not None) and the payload's ndim.  Indices   *)
(* are those of the program (0-based); hdul[i + 1] is the program's        *)
(* hdul[i].                                                                *)
(***************************************************************************)
Hdu(kind, has, nd) == [kind |-> kind, has_data |-> has, ndim |-> nd]

ImageKinds == {"PrimaryHDU", "ImageHDU"}
TableKinds == {"TableHDU", "BinTableHDU"}

\* isinstance(hdu, (fits.TableHDU, fits.BinTableHDU))
IsTableHDU(hdu) == hdu.kind \in TableKinds

\* every unit: an image unit has no payload or an array of 1 .. MaxNdim
\* dimensions, a table unit has no payload or a record array (one dimension)
AllHdus ==
    {Hdu(k, FALSE, 0) : k \in ImageKinds \cup TableKinds}
    \cup {Hdu(k, TRUE, n) : k \in ImageKinds, n \in 1 .. MaxNdim}
    \cup {Hdu(k, TRUE, 1) : k \in TableKinds}

\* the members of enum HDUType
HDUType == {"NONE", "EMPTY", "IMAGE", "TABLE"}

\* View.currentHDUType, for a view whose _current_hdu_index is in range
currentHDUType_anyArray(v) ==
    LET hdu == v.hdul[v.idx + 1]
    IN  IF ~ hdu.has_data THEN "EMPTY"
        ELSE IF IsTableHDU(hdu) THEN "TABLE"
        ELSE "IMAGE"
currentHDUType(v) ==
    LET hdu == v.hdul[v.idx + 1]
    IN  IF ~ hdu.has_data THEN "EMPTY"
        ELSE IF IsTableHDU(hdu) THEN "TABLE"
        ELSE IF hdu.ndim = 2 THEN "IMAGE"
        ELSE "EMPTY"

NoExc == [type |-> "none", at |-> ""]
Raised(type, at) == [type |-> type, at |-> at]

\* the files the user can pick: what fits.open yields for each ("unreadable"
\* when it raises)
Files == {"bad.fits", "one.fits", "img.fits", "cube.fits", "tab.fits", "rev.fits"}
Unreadable(f) == f = "bad.fits"
Contents(f) ==
    CASE f = "one.fits"  -> <<Hdu("PrimaryHDU", TRUE, 2)>>
      [] f = "img.fits"  -> <<Hdu("PrimaryHDU", FALSE, 0), Hdu("ImageHDU", TRUE, 2)>>
      [] f = "cube.fits" -> <<Hdu("PrimaryHDU", TRUE, 2), Hdu("ImageHDU", TRUE, 3)>>
      [] f = "tab.fits"  -> <<Hdu("PrimaryHDU", FALSE, 0), Hdu("BinTableHDU", TRUE, 1)>>
      [] f = "rev.fits"  -> <<Hdu("PrimaryHDU", TRUE, 3), Hdu("ImageHDU", TRUE, 2)>>
      [] OTHER           -> <<>>

\* a View whose fits.open raised: __init__ returned before setting _hdul,
\* _num_hdus, _current_hdu_index and before filling the stacked widget
FailedView(f) ==
    [file |-> f, opened |-> FALSE, hdul |-> <<>>, idx |-> -1,
     combo_count |-> 0, combo_cur |-> -1, widget |-> "none",
     pix |-> -1, tbl |-> -1, zoom |-> 0]

\* a View after lines 104-113: index 0, the first widget added (the empty
\* widget) shown, no pixmap, no table, an empty combo box
FreshView(f) ==
    [file |-> f, opened |-> TRUE, hdul |-> Contents(f), idx |-> 0,
     combo_count |-> 0, combo_cur |-> -1, widget |-> "empty",
     pix |-> -1, tbl |-> -1, zoom |-> 0]

Loaded(v, emits, msgs, e) == [v |-> v, emits |-> emits, msgs |-> msgs, exc |-> e]

\* View._loadTable: fill the table widget from HDU index, show it, emit TABLE
loadTable(v, index) ==
    Loaded([v EXCEPT !.tbl = index, !.widget = "table"], <<"TABLE">>, <<>>, NoExc)

\* View._loadPixmap: GraphicsView.setPixmap (which resets _zoom), show the
\* graphics view, emit IMAGE
loadPixmap(v, index) ==
    Loaded([v EXCEPT !.pix = index, !.zoom = 0, !.widget = "gview"], <<"IMAGE">>, <<>>, NoExc)

\* View.loadHDU(index): the view after the call, the HDUTypeChanged signals
\* emitted, the message boxes shown, the exception raised
loadHDU(v, index) ==
    IF index = v.idx THEN Loaded(v, <<>>, <<>>, NoExc)
    ELSE LET v1 == [v EXCEPT !.idx = index] IN
         IF Len(v.hdul) = 0
         THEN Loaded([v1 EXCEPT !.widget = "empty"], <<"EMPTY">>, <<>>, NoExc)
         ELSE IF index >= Len(v.hdul)
         THEN Loaded(v1, <<>>, <<>>, Raised("IndexError", "loadHDU"))
         ELSE LET hdu == v.hdul[index + 1] IN
              IF ~ hdu.has_data
              THEN Loaded([v1 EXCEPT !.widget = "empty"], <<>>, <<>>, NoExc)
              ELSE IF IsTableHDU(hdu) THEN loadTable(v1, index)
              ELSE IF hdu.ndim = 2 THEN loadPixmap(v1, index)
              ELSE Loaded(v1, <<>>, <<"Cannot display this HDU.">>, NoExc)

\* View._populateHDUListCombo: the first addItem makes index 0 current and the
\* combo box emits currentIndexChanged(0), which runs loadHDU(0)
populateHDUListCombo(v) ==
    IF Len(v.hdul) = 0 THEN Loaded(v, <<>>, <<>>, NoExc)
    ELSE loadHDU([v EXCEPT !.combo_count = Len(v.hdul), !.combo_cur = 0], 0)

\* View.__init__(filePath); HDUTypeChanged has no receiver yet, so what the
\* loads emit is dropped.  _initToolbar ends with loadHDU(1).
ViewInit(f) ==
    IF Unreadable(f)
    THEN Loaded(FailedView(f), <<>>, <<"Failed to open FITS file">>, NoExc)
    ELSE LET r1 == loadHDU(FreshView(f), 1) IN
         IF r1.exc # NoExc THEN Loaded(r1.v, <<>>, r1.msgs, r1.exc)
         ELSE LET r2 == populateHDUListCombo(r1.v)
              IN  Loaded(r2.v, <<>>, r1.msgs \o r2.msgs, r2.exc)

(***************************************************************************)
(* The main window.  Its handlers are functions of the window's state m.   *)
(***************************************************************************)
\* MainWindow.handleHDUTypeChanged(type)
handleHDUTypeChanged(m, type) ==
    [m EXCEPT !.type = type, !.zoomVisible = (type = "IMAGE")]

\* MainWindow._onTabChanged(index)
onTabChanged(m, index) ==
    LET m1 == [m EXCEPT !.currentView = index] IN
    IF index < 0 \/ ~ m.tabs[index + 1].opened
    THEN [m1 EXCEPT !.exc = Raised("AttributeError", "_onTabChanged")]
    ELSE IF m.tabs[index + 1].idx >= Len(m.tabs[index + 1].hdul)
    THEN [m1 EXCEPT !.exc = Raised("IndexError", "_onTabChanged")]
    ELSE handleHDUTypeChanged(m1, currentHDUType(m.tabs[index + 1]))

\* QTabWidget.addTab: the first tab becomes current, which emits currentChanged(0)
addTab(m, v) ==
    LET m1 == [m EXCEPT !.tabs = Append(@, v)]
    IN  IF Len(m.tabs) = 0 THEN onTabChanged([m1 EXCEPT !.tabCur = 0], 0) ELSE m1

\* QTabWidget.setCurrentWidget: currentChanged is emitted when the index changes
setCurrentTab(m, index) ==
    IF m.tabCur = index THEN m ELSE onTabChanged([m EXCEPT !.tabCur = index], index)

\* the loop of _openFiles: View(file), connect, addTab
RECURSIVE openLoop(_, _)
openLoop(m, files) ==
    IF files = <<>> THEN m
    ELSE LET r  == ViewInit(Head(files))
             m1 == [m EXCEPT !.msgs = @ \o r.msgs]
         IN  IF r.exc # NoExc THEN [m1 EXCEPT !.exc = r.exc]
             ELSE LET m2 == addTab(m1, r.v)
                  IN  IF m2.exc # NoExc THEN m2 ELSE openLoop(m2, Tail(files))

\* MainWindow._openFiles(files), files being what the caller or the dialog gave
openFiles(m, files) ==
    IF files = <<>> THEN [m EXCEPT !.ret = FALSE]
    ELSE LET m1 == openLoop(m, files)
             m2 == IF m1.exc # NoExc THEN m1 ELSE setCurrentTab(m1, Len(m1.tabs) - 1)
         IN  IF m2.exc # NoExc THEN m2 ELSE [m2 EXCEPT !.ret = TRUE]

\* the slot connected to the current view's HDUTypeChanged, for each signal
RECURSIVE deliver(_, _)
deliver(m, emits) ==
    IF emits = <<>> THEN m ELSE deliver(handleHDUTypeChanged(m, Head(emits)), Tail(emits))

\* View._onHDUCombolistIndexChanged(index) of the view shown in the current tab
onHDUCombolistIndexChanged(m, index) ==
    LET r  == loadHDU([m.tabs[m.tabCur + 1] EXCEPT !.combo_cur = index], index)
        m1 == deliver([m EXCEPT !.tabs[m.tabCur + 1] = r.v, !.msgs = r.msgs], r.emits)
    IN  [m1 EXCEPT !.exc = r.exc]

\* the lower limit of GraphicsView._zoom in _applyZoom
ZoomFloor == -10

\* GraphicsView._applyZoom(zoom_in), reached from wheelEvent with Ctrl held
applyZoom(v, zoom_in) ==
    IF zoom_in THEN [v EXCEPT !.zoom = @ + 1]
    ELSE IF v.zoom > ZoomFloor THEN [v EXCEPT !.zoom = @ - 1]
    ELSE v

\* GraphicsView.resetZoom
resetZoom(v) == [v EXCEPT !.zoom = 0]

\* MainWindow._zoomReset -> View.zoomReset -> GraphicsView.resetZoom
zoomReset(m) ==
    IF m.currentView < 0
    THEN [m EXCEPT !.exc = Raised("AttributeError", "_zoomReset")]
    ELSE [m EXCEPT !.tabs[m.currentView + 1] = resetZoom(@)]

\* MainWindow._zoomIn / _zoomOut -> View.zoomIn / zoomOut, which call
\* GraphicsView.applyZoom: GraphicsView defines _applyZoom only
zoomInOut(m, zoom_in) ==
    IF m.currentView < 0
    THEN [m EXCEPT !.exc = Raised("AttributeError", "_zoomIn/_zoomOut")]
    ELSE [m EXCEPT !.exc = Raised("AttributeError", "View.zoomIn/zoomOut")]

\* MainWindow._rotateClock / _rotateAnticlock -> View.rotateClock /
\* rotateAnticlock, which call GraphicsView.rotateClock / rotateAnticlock:
\* GraphicsView defines neither
rotate(m, clockwise) ==
    IF m.currentView < 0
    THEN [m EXCEPT !.exc = Raised("AttributeError", "_rotateClock/_rotateAnticlock")]
    ELSE [m EXCEPT !.exc = Raised("AttributeError", "View.rotateClock/rotateAnticlock")]

\* seq without its element at position k (1-based)
RemoveAt(seq, k) == SubSeq(seq, 1, k - 1) \o SubSeq(seq, k + 1, Len(seq))

\* QTabWidget.removeTab(index): when the current tab goes away the tab that
\* takes its place (or the last one) becomes current; when a tab before the
\* current one goes away the current index drops by one; both emit currentChanged
removeTab(m, index) ==
    LET m1 == [m EXCEPT !.tabs = RemoveAt(@, index + 1)]
        n  == Len(m1.tabs)
    IN  IF index = m.tabCur
        THEN LET new == IF n = 0 THEN -1 ELSE IF index < n THEN index ELSE n - 1
             IN  onTabChanged([m1 EXCEPT !.tabCur = new], new)
        ELSE IF index < m.tabCur
        THEN onTabChanged([m1 EXCEPT !.tabCur = m.tabCur - 1], m.tabCur - 1)
        ELSE m1

\* MainWindow._closeTab(index); with no tab left it reads self._hdulist_combo,
\* which MainWindow does not have
closeTab(m, index) ==
    LET m1 == removeTab(m, index)
    IN  IF m1.exc # NoExc THEN m1
        ELSE IF Len(m1.tabs) = 0
        THEN [m1 EXCEPT !.exc = Raised("AttributeError", "_closeTab")]
        ELSE m1

NoLast == [op |-> "", files |-> <<>>, ntabs |-> 0,
           msgs |-> <<>>, ret |-> FALSE, started |-> "none", file |-> <<>>]

ClsIdle ==
    /\ cview = [hdul |-> <<>>, idx |-> 0]
    /\ cls = ""

\* the main window after MainWindow.__init__ with no file given
GuiIdle ==
    /\ tabs = <<>>
    /\ tabCur = -1
    /\ currentView = -1
    /\ current_hdu_type = "NONE"
    /\ zoomVisible = TRUE
    /\ exc = NoExc
    /\ last = NoLast

\* the outcome record of _exportTable before any call
NoExport == [called |-> FALSE, format |-> "", written |-> FALSE, file |-> <<>>,
             ret |-> FALSE, msg |-> ""]

\* the values of the variables a specification does not use
NormIdle ==
    /\ data = <<>>
    /\ cast = [inf |-> 0, nan |-> 0]
    /\ norm_data = <<>>
    /\ divided = FALSE
    /\ npc = "input"

EscIdle ==
    /\ text = <<>>
    /\ escaped = <<>>
    /\ lpc = "idle"

ExpIdle ==
    /\ table = [names |-> <<>>, rows |-> <<>>]
    /\ xres = NoExport

SpecialChars == {replacements[i].char : i \in DOMAIN replacements}
TextChars == SpecialChars \cup {"a"}
Texts == UNION {[1 .. n -> TextChars] : n \in 0 .. MaxTextLen}

EscInit ==
    /\ text \in Texts
    /\ escaped = <<>>
    /\ lpc = "input"
    /\ NormIdle /\ ExpIdle /\ ClsIdle /\ GuiIdle

EscapeLatex ==
    /\ lpc = "input"
    /\ escaped' = escape_latex(text)
    /\ lpc' = "_escape_latex"
    /\ UNCHANGED <<text, normVars, expVars, clsVars, guiVars>>

EscNext == EscapeLatex

SpecEscape == EscInit /\ [][EscNext]_vars

(***************************************************************************)
(* Table export: MainWindow._exportTable on the table of the current view. *)
(* A cell is a str or a bytes value; a bytes value may hold a byte that is *)
(* no valid UTF-8 ("\xff", written "?" here), which decode(errors="ignore")*)
(* drops.                                                                  *)
(***************************************************************************)
Str(cs)   == [t |-> "str", s |-> cs]
Bytes(cs) == [t |-> "bytes", s |-> cs]
BadByte == "?"

CellValues == {Str(<<"a">>), Str(<<>>), Str(<<",">>), Str(<<"\n">>), Str(<<"&">>),
               Bytes(<<"b">>), Bytes(<<BadByte>>)}
ColNames == {<<"x">>, <<"y">>, <<"n", ",">>}

TableShapes == {s \in (1 .. MaxCells) \X (0 .. MaxCells) : s[1] * s[2] <= MaxCells}
Tables == UNION {[names : [1 .. s[1] -> ColNames],
                  rows  : [1 .. s[2] -> [1 .. s[1] -> CellValues]]] : s \in TableShapes}

\* val.decode(errors="ignore")
decode_ignore(bs) == SelectSeq(bs, LAMBDA b : b # BadByte)

\* if isinstance(val, bytes): val = val.decode(errors="ignore"); then str(val)
CellStr(val) == IF val.t = "bytes" THEN decode_ignore(val.s) ELSE val.s

\* table.data[col][row]: the column is found by its name, so a name that
\* occurs twice reads the first column that bears it
ColumnOf(tb, col) == CHOOSE i \in DOMAIN tb.names :
                         /\ tb.names[i] = col
                         /\ \A j \in DOMAIN tb.names : tb.names[j] = col => i <= j
CellAt(tb, col, row) == tb.rows[row][ColumnOf(tb, col)]

\* row_data of the csv / tsv branch: str(val) for col in table.col_names
RowStrs(tb, row) == [i \in DOMAIN tb.names |-> CellStr(CellAt(tb, tb.names[i], row))]

\* the else branch of the writer (CSV and TSV): the header line, then one line per row
WriteSeparated(tb, sep) ==
    Join(sep, tb.names) \o <<"\n">>
    \o Concat([r \in 1 .. Len(tb.rows) |-> Join(sep, RowStrs(tb, r)) \o <<"\n">>])

\* row_data of the tex branch: _escape_latex(str(val)) for col in table.col_names
EscapedRow(tb, row) ==
    [i \in DOMAIN tb.names |-> escape_latex(CellStr(CellAt(tb, tb.names[i], row)))]

\* the tex branch of the writer
WriteLatex(tb) ==
    <<"\\", "b", "e", "g", "i", "n", "{", "t", "a", "b", "u", "l", "a", "r", "}", "{">> \o Join(<<" ", "|", " ">>, [i \in 1 .. Len(tb.names) |-> <<"l">>]) \o <<"}", "\n">>
    \o <<"\\", "h", "l", "i", "n", "e", "\n">>
    \o Join(<<" ", "&", " ">>, [i \in 1 .. Len(tb.names) |-> escape_latex(tb.names[i])]) \o <<" ", "\\", "\\", "\n">> \o <<"\\", "h", "l", "i", "n", "e", "\n">>
    \o Concat([r \in 1 .. Len(tb.rows) |->
                  Join(<<" ", "&", " ">>, EscapedRow(tb, r)) \o <<" ", "\\", "\\", "\n">>])
    \o <<"\\", "h", "l", "i", "n", "e", "\n">> \o <<"\\", "e", "n", "d", "{", "t", "a", "b", "u", "l", "a", "r", "}", "\n">>

\* what QFileDialog.getSaveFileName may return: the file name ("" when the dialog
\* is cancelled) and the selected filter
FileNames == {"", "t.csv", "t.tsv", "t.tex", "t"}
Filters   == {"CSV Files (*.csv)", "TSV Files (*.tsv)", "LaTeX Files (*.tex)"}
EndsWith(name, ext) ==
    \/ ext = ".tsv" /\ name = "t.tsv"
    \/ ext = ".tex" /\ name = "t.tex"
\* "TSV" in selectedFilter, "LaTeX" in selectedFilter
FilterHas(filter, word) ==
    \/ word = "TSV" /\ filter = "TSV Files (*.tsv)"
    \/ word = "LaTeX" /\ filter = "LaTeX Files (*.tex)"

\* the format chosen from the dialog's answer
ExportFormat(name, filter) ==
    IF FilterHas(filter, "TSV") \/ EndsWith(name, ".tsv") THEN "tsv"
    ELSE IF FilterHas(filter, "LaTeX") \/ EndsWith(name, ".tex") THEN "tex"
    ELSE "csv"

\* MainWindow._exportTable for table tb, the dialog answering (name, filter),
\* open(name, "w") succeeding or not
exportTable(tb, name, filter, writable) ==
    IF Len(tb.rows) = 0
    THEN [NoExport EXCEPT !.called = TRUE, !.msg = "The current table is empty."]
    ELSE IF name = ""
    THEN [NoExport EXCEPT !.called = TRUE]
    ELSE LET fmt == ExportFormat(name, filter) IN
         IF ~ writable
         THEN [NoExport EXCEPT !.called = TRUE, !.format = fmt,
                               !.msg = "Failed to export table"]
         ELSE [called |-> TRUE, format |-> fmt, written |-> TRUE,
               file |-> CASE fmt = "tex" -> WriteLatex(tb)
                          [] fmt = "tsv" -> WriteSeparated(tb, <<"\t">>)
                          [] OTHER       -> WriteSeparated(tb, <<",">>),
               ret |-> TRUE, msg |-> "Table exported to"]

\* the table held by a table HDU of the files: one column, one row
HduTable(hdu) == [names |-> << <<"x">> >>, rows |-> << << Str(<<"a">>) >> >>]

\* what the save dialog of _exportImage may return ("" when cancelled), and
\* exportFileName.split(".")[-1].lower() being one of the six extensions
ImageNames == {"", "out.png", "out.xyz"}
ImageFilters == {"PNG Files (*.png)"}
SupportedImage(name) == name = "out.png"

\* the answer of the dialog a handler shows: the file name, the selected
\* filter, and whether writing the file succeeds
NoAnswer == [name |-> "", filter |-> "", ok |-> FALSE]
DialogAnswers(type) ==
    CASE type = "IMAGE" -> [name : ImageNames, filter : ImageFilters, ok : BOOLEAN]
      [] type = "TABLE" -> [name : FileNames, filter : Filters, ok : BOOLEAN]
      [] OTHER          -> {NoAnswer}

\* MainWindow._exportImage, the dialog answering a
exportImage(m, a) ==
    IF m.currentView < 0
    THEN [m EXCEPT !.msgs = <<"No image view is currently active.">>, !.ret = FALSE]
    ELSE IF m.tabs[m.currentView + 1].pix < 0
    THEN [m EXCEPT !.msgs = <<"The current view does not contain a valid image.">>,
                   !.ret = FALSE]
    ELSE LET m1 == [m EXCEPT !.started = "image"] IN
         IF a.name = "" THEN [m1 EXCEPT !.ret = FALSE]
         ELSE IF ~ SupportedImage(a.name)
         THEN [m1 EXCEPT !.msgs = <<"Unsupported image format.">>, !.ret = FALSE]
         ELSE IF a.ok
         THEN [m1 EXCEPT !.msgs = <<"Image saved to">>, !.ret = TRUE]
         ELSE [m1 EXCEPT !.msgs = <<"Could not save image">>, !.ret = FALSE]

\* MainWindow._exportTable on the current view, the dialog answering a;
\* View.getTable builds TableData(hdu.data), which reads data.names
exportTableOfView(m, a) ==
    IF m.currentView < 0
    THEN [m EXCEPT !.msgs = <<"No table is currently selected.">>, !.ret = FALSE]
    ELSE LET v   == m.tabs[m.currentView + 1]
             hdu == v.hdul[v.idx + 1]
         IN  IF ~ (hdu.has_data /\ IsTableHDU(hdu))
             THEN [m EXCEPT !.exc = Raised("AttributeError", "TableData.__init__")]
             ELSE LET r == exportTable(HduTable(hdu), a.name, a.filter, a.ok)
                  IN  [m EXCEPT !.msgs = IF r.msg = "" THEN <<>> ELSE <<r.msg>>,
                                !.ret = r.ret,
                                !.started = IF Len(HduTable(hdu).rows) = 0
                                            THEN "none" ELSE "table",
                                !.file = r.file]

\* MainWindow._export, the dialog (if one is shown) answering a
export(m, a) ==
    CASE m.type \in {"NONE", "EMPTY"} ->
             [m EXCEPT !.msgs = <<"Nothing to export here">>, !.ret = FALSE]
      [] m.type = "IMAGE" -> exportImage(m, a)
      [] m.type = "TABLE" -> exportTableOfView(m, a)

ExpInit ==
    /\ table \in Tables
    /\ xres = NoExport
    /\ NormIdle /\ EscIdle /\ ClsIdle /\ GuiIdle

ExportTable ==
    /\ ~ xres.called
    /\ \E name \in FileNames, filter \in Filters, writable \in BOOLEAN :
           xres' = exportTable(table, name, filter, writable)
    /\ UNCHANGED <<table, normVars, escVars, clsVars, guiVars>>

ExpNext == ExportTable

SpecExport == ExpInit /\ [][ExpNext]_vars

(***************************************************************************)
(* The normalizer as a state machine: an input array is drawn, then one of *)
(* the two routines is applied to it.                                      *)
(***************************************************************************)
NormInit ==
    /\ data \in Arrays(Samples) \cup {ExampleArray}
    /\ cast \in Casts
    /\ norm_data = <<>>
    /\ divided = FALSE
    /\ npc = "input"
    /\ EscIdle /\ ExpIdle /\ ClsIdle /\ GuiIdle

LoadPixmap ==
    /\ npc = "input"
    /\ LET r == LoadPixmapNorm(data, cast)
       IN  /\ norm_data' = r.buf
           /\ divided' = r.div
    /\ npc' = "_loadPixmap"
    /\ UNCHANGED <<data, cast, escVars, expVars, clsVars, guiVars>>

FitsToQPixmap ==
    /\ npc = "input"
    /\ LET r == FitsToQPixmapNorm(data, cast)
       IN  /\ norm_data' = r.buf
           /\ divided' = r.div
    /\ npc' = "fits_to_qpixmap"
    /\ UNCHANGED <<data, cast, escVars, expVars, clsVars, guiVars>>

NormNext == LoadPixmap \/ FitsToQPixmap

SpecNorm == NormInit /\ [][NormNext]_vars

(***************************************************************************)
(* The classifier as a state machine: a view with an HDU list and a        *)
(* current index in range is drawn, then View.currentHDUType is applied.   *)
(***************************************************************************)
HduLists == UNION {[1 .. n -> AllHdus] : n \in 1 .. MaxHdus}

ClsInit ==
    /\ cview \in {[hdul |-> l, idx |-> i] : l \in HduLists, i \in 0 .. MaxHdus - 1}
    /\ cview.idx < Len(cview.hdul)
    /\ cls = ""
    /\ NormIdle /\ EscIdle /\ ExpIdle /\ GuiIdle

Classify ==
    /\ cls = ""
    /\ cls' = currentHDUType(cview)
    /\ UNCHANGED <<cview, normVars, escVars, expVars, guiVars>>

ClsNext == Classify

SpecClassify == ClsInit /\ [][ClsNext]_vars

(***************************************************************************)
(* The application: the user opens files, switches tabs, selects HDUs in   *)
(* the current tab's combo box, closes tabs, exports, zooms and rotates.   *)
(* Each action                                                             *)
(* is one handler run to completion, with the slots its signals invoke.    *)
(* An unhandled exception ends the program.                                *)
(***************************************************************************)
MW == [tabs |-> tabs, tabCur |-> tabCur, currentView |-> currentView,
       type |-> current_hdu_type, zoomVisible |-> zoomVisible, exc |-> NoExc,
       msgs |-> <<>>, ret |-> FALSE, started |-> "none", file |-> <<>>]

\* the window's variables after a handler left it in state m
Becomes(m, op, files) ==
    /\ tabs' = m.tabs
    /\ tabCur' = m.tabCur
    /\ currentView' = m.currentView
    /\ current_hdu_type' = m.type
    /\ zoomVisible' = m.zoomVisible
    /\ exc' = m.exc
    /\ last' = [op |-> op, files |-> files, ntabs |-> Len(tabs),
                msgs |-> m.msgs, ret |-> m.ret, started |-> m.started,
                file |-> m.file]
    /\ UNCHANGED <<normVars, escVars, expVars, clsVars>>

Running == exc = NoExc

\* the event loop (app.exec) waits for the next event: no handler's outcome is
\* pending
Idle == last = NoLast

\* the indices the HDU combo boxes can hold
ComboIndices == UNION {0 .. Len(Contents(f)) - 1 : f \in Files}

\* the file lists of at most n files
FileLists(n) == UNION {[1 .. k -> Files] : k \in 0 .. n}

GuiInit == GuiIdle /\ NormIdle /\ EscIdle /\ ExpIdle /\ ClsIdle

\* File > Open, the "o" shortcut, or the command line: _openFiles(files)
OpenFiles(files) ==
    /\ Running /\ Idle
    /\ Len(tabs) + Len(files) <= MaxTabs
    /\ Becomes(openFiles(MW, files), "_openFiles", files)

\* the user clicks another tab (the tab bar shows with two tabs or more)
SelectTab(index) ==
    /\ Running /\ Idle
    /\ Len(tabs) >= 2
    /\ index \in 0 .. Len(tabs) - 1
    /\ index # tabCur
    /\ Becomes(onTabChanged([MW EXCEPT !.tabCur = index], index), "_onTabChanged", <<>>)

\* the user picks another entry of the HDU combo box of the current tab
SelectHDU_allViews(index) ==
    /\ Running /\ Idle
    /\ tabCur >= 0
    /\ index \in 0 .. tabs[tabCur + 1].combo_count - 1
    /\ index # tabs[tabCur + 1].combo_cur
    /\ LET m == onHDUCombolistIndexChanged(MW, index)
       IN  Becomes([m EXCEPT !.tabs = [i \in DOMAIN m.tabs |->
                       IF i # tabCur + 1 /\ m.tabs[i].opened /\ index < Len(m.tabs[i].hdul)
                       THEN loadHDU(m.tabs[i], index).v ELSE m.tabs[i]]],
                   "loadHDU", <<>>)
SelectHDU(index) ==
    /\ Running /\ Idle
    /\ tabCur >= 0
    /\ index \in 0 .. tabs[tabCur + 1].combo_count - 1
    /\ index # tabs[tabCur + 1].combo_cur
    /\ Becomes(onHDUCombolistIndexChanged(MW, index), "loadHDU", <<>>)

\* Edit > Export
Export ==
    /\ Running /\ Idle
    /\ \E a \in DialogAnswers(current_hdu_type) :
           Becomes(export(MW, a), "_export", <<>>)

\* the close button of a tab (the tab bar shows with two tabs or more)
CloseTab(index) ==
    /\ Running /\ Idle
    /\ Len(tabs) >= 2
    /\ index \in 0 .. Len(tabs) - 1
    /\ Becomes(closeTab(MW, index), "_closeTab", <<>>)

\* the "." and "," shortcuts
Rotate(clockwise) ==
    /\ Running /\ Idle
    /\ Becomes(rotate(MW, clockwise), "_rotateClock/_rotateAnticlock", <<>>)

\* View > Zoom In / Zoom Out, the "=" and "-" shortcuts
ZoomInOut(zoom_in) ==
    /\ Running /\ Idle
    /\ Becomes(zoomInOut(MW, zoom_in), "_zoomIn/_zoomOut", <<>>)

\* the "0" shortcut
ZoomReset ==
    /\ Running /\ Idle
    /\ Becomes(zoomReset(MW), "_zoomReset", <<>>)

\* Ctrl + wheel over the graphics view of the current tab
WheelZoom(zoom_in) ==
    /\ Running /\ Idle
    /\ tabCur >= 0
    /\ tabs[tabCur + 1].widget = "gview"
    /\ zoom_in => tabs[tabCur + 1].zoom < MaxZoom
    /\ ~ zoom_in => tabs[tabCur + 1].zoom > - MaxZoomOut
    /\ Becomes([MW EXCEPT !.tabs[tabCur + 1] = applyZoom(@, zoom_in)], "wheelEvent", <<>>)

\* the handler has returned and its message boxes are dismissed: control is
\* back in the event loop
EventLoop ==
    /\ Running
    /\ last # NoLast
    /\ last' = NoLast
    /\ UNCHANGED <<tabs, tabCur, currentView, current_hdu_type, zoomVisible, exc>>
    /\ UNCHANGED <<normVars, escVars, expVars, clsVars>>

Next ==
    \/ \E files \in FileLists(MaxTabs - Len(tabs)) : OpenFiles(files)
    \/ \E index \in 0 .. MaxTabs - 1 : SelectTab(index)
    \/ \E index \in ComboIndices : SelectHDU(index)
    \/ Export
    \/ \E zoom_in \in BOOLEAN : ZoomInOut(zoom_in)
    \/ ZoomReset
    \/ \E zoom_in \in BOOLEAN : WheelZoom(zoom_in)
    \/ \E index \in 0 .. MaxTabs - 1 : CloseTab(index)
    \/ \E clockwise \in BOOLEAN : Rotate(clockwise)
    \/ EventLoop

Spec == GuiInit /\ [][Next]_vars

(***************************************************************************)
(* Claims about the normalizer.  The expected values are computed on plain *)
(* integers, independently of the floating point operators above.          *)
(***************************************************************************)
NormDone == npc # "input"

\* the sample as the claims read it: NaN, +Inf and -Inf count as 0
AsZero(x) == IF x.k = "fin" THEN x.num ELSE 0
HasInf(a) == \E p \in Pixels(a) : a[p[1]][p[2]].k \in {"pinf", "ninf"}
IntMin(a) == CHOOSE m \in {AsZero(a[p[1]][p[2]]) : p \in Pixels(a)} :
                 \A p \in Pixels(a) : m <= AsZero(a[p[1]][p[2]])
IntMax(a) == CHOOSE m \in {AsZero(a[p[1]][p[2]]) : p \in Pixels(a)} :
                 \A p \in Pixels(a) : m >= AsZero(a[p[1]][p[2]])
SameShape(a, b) ==
    /\ Len(a) = Len(b)
    /\ \A r \in 1 .. Len(a) : Len(a[r]) = Len(b[r])

\* 255 * (v - lo) / (hi - lo) with the fraction cut off, and rounded to nearest
Floor255(v, lo, hi) == (255 * (v - lo)) \div (hi - lo)
Round255(v, lo, hi) == (2 * 255 * (v - lo) + (hi - lo)) \div (2 * (hi - lo))

\* the output the claims expect for array a: the quotient cut off, and rounded
ExpectedFloor(a) ==
    [r \in 1 .. Height(a) |-> [c \in 1 .. Width(a) |->
        IF IntMin(a) = IntMax(a) THEN 0
        ELSE Floor255(AsZero(a[r][c]), IntMin(a), IntMax(a))]]
ExpectedRound(a) ==
    [r \in 1 .. Height(a) |-> [c \in 1 .. Width(a) |->
        IF IntMin(a) = IntMax(a) THEN 0
        ELSE Round255(AsZero(a[r][c]), IntMin(a), IntMax(a))]]

\* C1 as written: whenever the cleaned minimum differs from the cleaned maximum,
\* every output pixel is round(255 * (value - min) / (max - min)), the quotient
\* rounded to the nearest integer (stated here for inputs without infinities)
C1_RoundedToNearest ==
    (NormDone /\ ~ HasInf(data) /\ IntMin(data) # IntMax(data))
        => norm_data = ExpectedRound(data)

\* C1 amended: for floating point inputs without infinite samples (NaN counted
\* as 0) whose cleaned minimum differs from the cleaned maximum, every output
\* pixel is 255 * (value - min) / (max - min) with its fraction cut off, and
\* [[0,10],[20,30]] yields [[0,85],[170,255]]
C1_FractionCutOff ==
    /\ (NormDone /\ ~ HasInf(data) /\ IntMin(data) # IntMax(data))
           => norm_data = ExpectedFloor(data)
    /\ (NormDone /\ data = ExampleArray)
           => norm_data = <<<<0, 85>>, <<170, 255>>>>

\* C1 witness: an input was normalized whose quotient 255 * 1 / 2 = 127.5 is
\* not an integer, and the pixel is 127
C1_Witness ==
    /\ NormDone
    /\ data = <<<<Fin(-1), Fin(0)>>, <<Fin(1), NaN>>>>
    /\ norm_data = <<<<0, 127>>, <<255, 127>>>>

\* C2: NaN, +Inf and -Inf samples are replaced with 0 before min, max and the
\* scaling, so the output equals the output for the input in which each of them
\* was written as 0.  Stated where every build yields the same bytes: for inputs
\* whose infinite samples are +Inf, at the pixels whose own sample is finite or NaN
C2_SpecialsCountAsZero ==
    (NormDone /\ \A p \in Pixels(data) : data[p[1]][p[2]].k # "ninf")
        => \A p \in Pixels(data) :
               data[p[1]][p[2]].k \in {"fin", "nan"}
                   => norm_data[p[1]][p[2]] = ExpectedFloor(data)[p[1]][p[2]]

\* C6: when the cleaned array is constant (min == max), the output has the
\* shape of the input, every byte of it is 0, and no division was performed
C6_ConstantGivesZeros ==
    (NormDone /\ np_min(nan_to_num(data)) = np_max(nan_to_num(data)))
        => /\ SameShape(norm_data, data)
           /\ \A p \in Pixels(data) : norm_data[p[1]][p[2]] = 0
           /\ ~ divided

\* C6 witness: an array made only of NaN samples was normalized to zeros
C6_Witness ==
    /\ NormDone
    /\ Height(data) = 2 /\ Width(data) = 2
    /\ \A p \in Pixels(data) : data[p[1]][p[2]] = NaN
    /\ \A p \in Pixels(data) : norm_data[p[1]][p[2]] = 0
    /\ ~ divided

(***************************************************************************)
(* Claims about the text export.                                           *)
(***************************************************************************)
\* the escaped form the replacements dictionary gives one character
EscapeOf(ch) ==
    IF ch \in SpecialChars
    THEN replacements[CHOOSE i \in DOMAIN replacements : replacements[i].char = ch].escape
    ELSE <<ch>>

\* C8: every special character of the input is mapped to exactly its own
\* escaped form and every other character is left unchanged: the result is the
\* concatenation of the per-character forms, nothing produced by one replacement
\* being rewritten by a later one
C8_EachCharEscapedOnce ==
    (lpc = "_escape_latex") => escaped = Concat([i \in 1 .. Len(text) |-> EscapeOf(text[i])])

\* a reader of delimiter-separated text: records end at "\n", fields at sep
RECURSIVE SplitAt(_, _, _)
SplitAt(t, sep, cur) ==
    IF t = <<>> THEN <<cur>>
    ELSE IF Head(t) = sep THEN <<cur>> \o SplitAt(Tail(t), sep, <<>>)
    ELSE SplitAt(Tail(t), sep, Append(cur, Head(t)))
Records(t) ==
    LET parts == SplitAt(t, "\n", <<>>)
    IN  IF parts[Len(parts)] = <<>> THEN SubSeq(parts, 1, Len(parts) - 1) ELSE parts
ParseCSV(t) == [i \in 1 .. Len(Records(t)) |-> SplitAt(Records(t)[i], ",", <<>>)]

\* the table's cells as strings, by position
CellStrings(tb) ==
    [r \in 1 .. Len(tb.rows) |-> [i \in 1 .. Len(tb.rows[r]) |-> CellStr(tb.rows[r][i])]]
DistinctNames(tb) ==
    \A i, j \in DOMAIN tb.names : tb.names[i] = tb.names[j] => i = j

\* C7: re-parsing the text written by the CSV branch yields the header and, for
\* every row and column, the cell's str(value) (bytes cells after decoding);
\* stated for tables whose column names are distinct
C7_CsvRoundTrip ==
    (xres.written /\ xres.format = "csv" /\ DistinctNames(table))
        => ParseCSV(xres.file) = <<table.names>> \o CellStrings(table)

(***************************************************************************)
(* Claims about the classifier.                                            *)
(***************************************************************************)
ClassifiedHdu == cview.hdul[cview.idx + 1]

\* C3: a unit whose payload is present, which is no table HDU and whose payload
\* is not 2-dimensional is classified Unsupported, not Empty
C3_NonImageArrayIsUnsupported ==
    (cls # "" /\ ClassifiedHdu.has_data /\ ~ IsTableHDU(ClassifiedHdu)
              /\ ClassifiedHdu.ndim # 2)
        => cls = "UNSUPPORTED"

\* C4: Empty for a unit without payload, Table for a table HDU with a payload,
\* and Image only for a unit that is no table and whose payload has exactly 2
\* dimensions
C4_ClassifierCases ==
    cls # "" =>
        /\ ~ ClassifiedHdu.has_data => cls = "EMPTY"
        /\ (ClassifiedHdu.has_data /\ IsTableHDU(ClassifiedHdu)) => cls = "TABLE"
        /\ cls = "IMAGE" => /\ ~ IsTableHDU(ClassifiedHdu)
                            /\ ClassifiedHdu.has_data
                            /\ ClassifiedHdu.ndim = 2

\* C4 witness: the second unit of a list, a 2-dimensional image extension after a
\* table, was classified Image
C4_Witness ==
    /\ cls = "IMAGE"
    /\ cview.idx = 1
    /\ ClassifiedHdu = Hdu("ImageHDU", TRUE, 2)
    /\ cview.hdul[1] = Hdu("BinTableHDU", TRUE, 1)

(***************************************************************************)
(* Claims about the application.                                           *)
(***************************************************************************)
\* the unit at the current index of the current view
CurrentHdu == tabs[currentView + 1].hdul[tabs[currentView + 1].idx + 1]

\* C5: when a file of the list passed to _openFiles cannot be opened (the other
\* files of the list being files with several HDUs), the failure is shown as a
\* message, _openFiles completes, every other file of the list has its tab, and
\* no step of the open raises an unhandled exception
C5_FailedOpenIsContained ==
    (/\ last.op = "_openFiles"
     /\ \E i \in DOMAIN last.files : Unreadable(last.files[i])
     /\ \A i \in DOMAIN last.files :
            ~ Unreadable(last.files[i]) => Len(Contents(last.files[i])) >= 2)
        => /\ exc = NoExc
           /\ last.ret
           /\ \E j \in DOMAIN last.msgs : last.msgs[j] = "Failed to open FITS file"
           /\ Len(tabs) = last.ntabs + Len(last.files)
           /\ \A i \in DOMAIN last.files : tabs[last.ntabs + i].file = last.files[i]

\* C9: Export invoked while nothing is loaded, or while the current HDU of the
\* current view has no payload, shows 'Nothing to export here', returns False
\* and starts neither the image export nor the table export
C9_EmptyExportRefused ==
    (/\ last.op = "_export"
     /\ \/ tabs = <<>>
        \/ currentView >= 0 /\ tabs[currentView + 1].opened /\ ~ CurrentHdu.has_data)
        => /\ last.msgs = <<"Nothing to export here">>
           /\ ~ last.ret
           /\ last.started = "none"
           /\ exc = NoExc

\* C10: a step never changes a view other than the current one: every view B
\* that is not the view operated on keeps its HDU list, its current HDU index,
\* its displayed widget, its bitmap (and the rest of its state); closing a tab
\* removes that tab's view and leaves every other view as it was
C10_OtherViewsUnchanged ==
    [][\/ /\ Len(tabs') >= Len(tabs)
          /\ \A i \in DOMAIN tabs : (i # tabCur + 1) => tabs'[i] = tabs[i]
       \/ /\ Len(tabs') = Len(tabs) - 1
          /\ \E k \in DOMAIN tabs : tabs' = RemoveAt(tabs, k)]_vars

\* C10 witness: two views are open, the current one was moved off its initial
\* HDU by loadHDU and zoomed, and the other one is as its construction left it
C10_Witness ==
    /\ exc = NoExc
    /\ Len(tabs) = 2
    /\ tabCur = 1
    /\ last.op = "wheelEvent"
    /\ tabs[2].file = "img.fits" /\ tabs[2].idx = 1 /\ tabs[2].pix = 1
    /\ tabs[2].widget = "gview" /\ tabs[2].zoom = 1
    /\ tabs[1] = ViewInit("cube.fits").v

\* C11: while the program runs with a current view, the main window's recorded
\* type equals currentHDUType() of the current view, and the zoom menu actions
\* are visible exactly when that type is IMAGE
C11_RecordedTypeIsCurrentType ==
    (exc = NoExc /\ currentView >= 0 /\ tabs[currentView + 1].opened)
        => /\ current_hdu_type = currentHDUType(tabs[currentView + 1])
           /\ zoomVisible = (currentHDUType(tabs[currentView + 1]) = "IMAGE")

\* C12: opening files that fits.open can read, each with at least one HDU, and
\* selecting entries of the combo box never makes loadHDU index the HDU list
\* out of range: no IndexError is raised by loadHDU
C12_LoadIndexInRange ==
    exc # Raised("IndexError", "loadHDU")

\* the widget the stacked widget should show for unit hdu
WidgetFits(w, hdu) ==
    IF ~ hdu.has_data THEN w = "empty"
    ELSE IF IsTableHDU(hdu) THEN w = "table"
    ELSE IF hdu.ndim = 2 THEN w = "gview"
    ELSE w \notin {"gview", "table"}

\* C13: in every view whose loads returned, the widget shown matches the unit
\* at the view's current index: the empty widget without payload, the table
\* widget for a table, the graphics view for a 2-dimensional payload, and
\* neither the graphics view nor the table widget for an undisplayable payload
C13_WidgetMatchesCurrentHdu ==
    \A i \in DOMAIN tabs :
        (tabs[i].opened /\ tabs[i].idx \in 0 .. Len(tabs[i].hdul) - 1)
            => WidgetFits(tabs[i].widget, tabs[i].hdul[tabs[i].idx + 1])

=============================================================================
